---- MODULE Spec2Model ----
(***************************************************************************)
(* The Spyral metadata server (serverAPI/app/main.py): a GET-only HTTP     *)
(* service that reads a song asset from a contract and answers with        *)
(* ERC-721 style metadata (/metadata/{token_id}) or an HTML preview        *)
(* (/view/{token_id}).                                                     *)
(*                                                                         *)
(* Text built with f-strings is a tuple of its parts; byte strings are     *)
(* sequences of bytes; a uint128 amount of wei is three limbs in base 10^9 *)
(* (<<a2, a1, a0>> is a2*10^18 + a1*10^9 + a0), so that one ether is       *)
(* <<1, 0, 0>>.                                                            *)
(***************************************************************************)
EXTENDS Integers, Sequences, FiniteSets, TLC

VARIABLES
    req,            \* the requests in flight, one record per connection
    chain,          \* the contract's storage: token id -> asset
    lifecycle_map,  \* the module global LIFECYCLE_MAP
    contract        \* the module global chain-client handle

vars == <<req, chain, lifecycle_map, contract>>

----------------------------------------------------------------------------
(* Module globals                                                          *)

IPFS_BASE_CID ==
    <<"ipfs://", "bafybeice35pax2yc3pcwjdh445g7eol7lag4z4aalpgquv6bpdjdz6m7ja">>

LIFECYCLE_MAP ==
    (0 :> [name |-> "Upload",      file |-> "upload.jpg"]) @@
    (1 :> [name |-> "Collaborate", file |-> "collaborate.jpg"]) @@
    (2 :> [name |-> "Register",    file |-> "register.jpg"]) @@
    (3 :> [name |-> "Publish",     file |-> "publish.jpg"]) @@
    (4 :> [name |-> "Revenue",     file |-> "revenue.jpg"])

\* w3.eth.contract(address = CONTRACT_ADDRESS, abi = CONTRACT_ABI)
ContractHandle ==
    [address |-> "CONTRACT_ADDRESS",
     abi     |-> {"getSongData", "getCollaborators", "ownerOf", "name", "symbol"}]

STATUS_COLORS ==
    <<"bg-slate-500", "bg-blue-600", "bg-fuchsia-600", "bg-emerald-500",
      "bg-amber-500">>

----------------------------------------------------------------------------
(* The ABI's value types                                                   *)

Uint8Max == 255

HashLen == 32

\* Longest collaborator list handed to the builder.
MaxCollab == 2

\* Longest collaborator list the chain holds while requests interleave.
MaxChainCollab == 1

ZeroHash == [i \in 1..HashLen |-> 0]

AudioHashes ==
    { ZeroHash,
      [i \in 1..HashLen |-> IF i = HashLen THEN 1 ELSE 0],
      [i \in 1..HashLen |-> 171] }

PublishedAts == {0, 1700000000}

StreamCounts == {0, 42}

Revenues == { <<0, 0, 0>>, <<1, 0, 0>>, <<2, 123456789, 0>> }

SpotifyIds == {"", "abc123"}

\* The tuple getSongData returns, by position (abi.py).
SongData(s, p, n, w, h, sp) == <<s, p, n, w, h, sp>>

AllSongs ==
    { SongData(s, p, n, w, h, sp) :
        s \in 0..Uint8Max, p \in PublishedAts, n \in StreamCounts,
        w \in Revenues, h \in AudioHashes, sp \in SpotifyIds }

Collaborator(i) == [wallet |-> <<"0x", i>>, splitPercentage |-> 10 * i]

CollabList(n) == [i \in 1..n |-> Collaborator(i)]

CollabLists == { CollabList(n) : n \in 0..MaxCollab }

----------------------------------------------------------------------------
(* Conversions                                                             *)

HexDigits ==
    <<"0", "1", "2", "3", "4", "5", "6", "7", "8", "9",
      "a", "b", "c", "d", "e", "f">>

\* Web3.to_hex(bytes): "0x" and two lowercase hex digits per byte.
ToHex(bytes) ==
    <<"0", "x">> \o
    [k \in 1..(2 * Len(bytes)) |->
        LET b == bytes[(k + 1) \div 2]
        IN  IF k % 2 = 1 THEN HexDigits[(b \div 16) + 1]
                         ELSE HexDigits[(b % 16) + 1]]

\* float(w3.from_wei(wei, 'ether')): wei / 10^18, whole part and the
\* fraction in units of 10^-18 (two limbs).
FromWeiEther(wei) == [whole |-> wei[1], frac |-> <<wei[2], wei[3]>>]

\* round(x, 4): the fraction in units of 10^-4; a tie, which no sampled
\* amount produces, is taken upwards.
Round4(x) ==
    LET f4   == x.frac[1] \div 100000
        rest == x.frac[1] % 100000
        up   == rest >= 50000
        f    == IF up THEN f4 + 1 ELSE f4
    IN  IF f = 10000 THEN [whole |-> x.whole + 1, frac4 |-> 0]
                     ELSE [whole |-> x.whole, frac4 |-> f]

MonthAbbr ==
    <<"Jan", "Feb", "Mar", "Apr", "May", "Jun",
      "Jul", "Aug", "Sep", "Oct", "Nov", "Dec">>

\* datetime.fromtimestamp(ts).strftime('%d %b %Y'), the server's zone
\* being UTC: the civil date of the day ts falls in.
FormatDate(ts) ==
    LET z   == (ts \div 86400) + 719468
        era == z \div 146097
        doe == z - era * 146097
        yoe == (doe - doe \div 1460 + doe \div 36524 - doe \div 146096) \div 365
        doy == doe - (365 * yoe + yoe \div 4 - yoe \div 100)
        mp  == (5 * doy + 2) \div 153
        d   == doy - (153 * mp + 2) \div 5 + 1
        m   == IF mp < 10 THEN mp + 3 ELSE mp - 9
        y   == yoe + era * 400 + (IF m <= 2 THEN 1 ELSE 0)
    IN  <<d \div 10, d % 10, " ", MonthAbbr[m], " ", y>>

\* IPFS_BASE_CID.replace('ipfs://', '')
StripScheme(parts) == SelectSeq(parts, LAMBDA p : p # "ipfs://")

----------------------------------------------------------------------------
(* The lifecycle lookup and the metadata builder                           *)

\* A lookup that falls back to the table's last entry.
LifecycleGetClamp(state_index) ==
    IF state_index \in DOMAIN lifecycle_map
    THEN lifecycle_map[state_index]
    ELSE lifecycle_map[4]

\* LIFECYCLE_MAP.get(state_index, LIFECYCLE_MAP[0])
LifecycleGet(state_index) ==
    IF state_index \in DOMAIN lifecycle_map
    THEN lifecycle_map[state_index]
    ELSE lifecycle_map[0]

\* any(b != 0 for b in audio_hash), after the truthiness test of the bytes
HashPresent(audio_hash) ==
    Len(audio_hash) > 0 /\ \E i \in 1..Len(audio_hash) : audio_hash[i] # 0

Attr(t, v) == [trait_type |-> t, value |-> v]

AttrTyped(t, d, v) == [trait_type |-> t, display_type |-> d, value |-> v]

\* "attributes": [{"trait_type": "Lifecycle State", ...}]
BaseAttributes(state_info) == << Attr("Lifecycle State", state_info.name) >>

\* Stato 0: the audio hash, when there is one.
AddAudioHash(attrs, state_index, audio_hash) ==
    IF state_index >= 0 /\ HashPresent(audio_hash)
    THEN Append(attrs, Attr("Audio Hash", ToHex(audio_hash)))
    ELSE attrs

\* The collaborator count disclosed one state late.
AddCollaboratorsLate(attrs, state_index, collaborators) ==
    IF state_index > 1
    THEN Append(attrs, Attr("Collaborators", Len(collaborators)))
    ELSE attrs

\* Stato 1: the number of collaborators.
AddCollaborators(attrs, state_index, collaborators) ==
    IF state_index >= 1
    THEN Append(attrs, Attr("Collaborators", Len(collaborators)))
    ELSE attrs

\* The published date appended before the Spotify ID.
AddRegisterPublishSwapped(attrs, state_index, spotify_id, published_at) ==
    IF state_index >= 2
    THEN LET withDate == IF published_at > 0
                         THEN Append(attrs, AttrTyped("Published Date", "date",
                                                      published_at))
                         ELSE attrs
         IN  IF spotify_id # ""
             THEN Append(withDate, Attr("Spotify ID", spotify_id))
             ELSE withDate
    ELSE attrs

\* Stato 2 e 3: the Spotify ID, then the published date.
AddRegisterPublish(attrs, state_index, spotify_id, published_at) ==
    IF state_index >= 2
    THEN LET withId == IF spotify_id # ""
                       THEN Append(attrs, Attr("Spotify ID", spotify_id))
                       ELSE attrs
         IN  IF published_at > 0
             THEN Append(withId, AttrTyped("Published Date", "date", published_at))
             ELSE withId
    ELSE attrs

\* Stato 4: the stream count and the revenue in ether.
AddRevenue(attrs, state_index, streams, revenue) ==
    IF state_index >= 4
    THEN attrs \o << AttrTyped("Stream Count", "number", streams),
                     Attr("Revenue Generated", FromWeiEther(revenue)) >>
    ELSE attrs

\* The body of get_nft_metadata after the two reads: the metadata dict.
BuildMetadata(token_id, song_data, collaborators) ==
    LET state_index  == song_data[1]
        published_at == song_data[2]
        streams      == song_data[3]
        revenue      == song_data[4]
        audio_hash   == song_data[5]
        spotify_id   == song_data[6]
        state_info   == LifecycleGet(state_index)
    IN  [name         |-> <<"Spyral Song #", token_id>>,
         description  |-> <<"This song is currently in the ",
                            state_info.name, " phase.">>,
         image        |-> IPFS_BASE_CID \o <<"/", state_info.file>>,
         external_url |-> <<"https://spyral.com/song/", token_id>>,
         attributes   |->
            AddRevenue(
              AddRegisterPublish(
                AddCollaborators(
                  AddAudioHash(BaseAttributes(state_info), state_index, audio_hash),
                  state_index, collaborators),
                state_index, spotify_id, published_at),
              state_index, streams, revenue)]

\* The context dict of view_nft_modern, its entries evaluated in order; the
\* palette lookup raises IndexError past its last entry.
ViewContext(request, token_id, song_data) ==
    LET state_idx  == song_data[1]
        state_info == LifecycleGet(state_idx)
    IN  IF state_idx + 1 > Len(STATUS_COLORS)
        THEN [ok |-> FALSE, error |-> "list index out of range"]
        ELSE [ok |-> TRUE,
              value |->
                [request      |-> request,
                 token_id     |-> token_id,
                 state_name   |-> state_info.name,
                 image_url    |-> <<"https://ipfs.io/ipfs/">> \o
                                  StripScheme(IPFS_BASE_CID) \o
                                  <<"/", state_info.file>>,
                 streams      |-> song_data[3],
                 revenue      |-> Round4(FromWeiEther(song_data[4])),
                 spotify_id   |-> song_data[6],
                 pub_date     |-> IF song_data[2] > 0
                                  THEN FormatDate(song_data[2])
                                  ELSE <<"Pending">>,
                 progress     |-> ((state_idx + 1) * 100) \div 5,
                 status_color |-> STATUS_COLORS[state_idx + 1]]]

----------------------------------------------------------------------------
(* Requests                                                                *)

Requests == {"r1", "r2"}

Methods == {"GET", "POST", "OPTIONS"}

Digits == {"0", "1", "2", "3", "4", "5", "6", "7", "8", "9"}

DigitVal(c) ==
    CASE c = "0" -> 0 [] c = "1" -> 1 [] c = "2" -> 2 [] c = "3" -> 3
      [] c = "4" -> 4 [] c = "5" -> 5 [] c = "6" -> 6 [] c = "7" -> 7
      [] c = "8" -> 8 [] c = "9" -> 9

\* The path segments clients send after /metadata/ and /view/.
Segments ==
    { <<"1">>, <<"1", "1">>, <<"-", "1">>, <<"a">>, <<"1", "a">>, <<"-">> }

Targets ==
    { [path |-> p, seg |-> <<>>] : p \in {"/", "/nope"} } \cup
    { [path |-> p, seg |-> sg] : p \in {"/metadata/", "/view/"}, sg \in Segments }

Unsigned(seg) == IF Len(seg) > 0 /\ seg[1] = "-" THEN Tail(seg) ELSE seg

\* A validation that accepts a sign with no digit after it.
IsIntLiteralLax(seg) ==
    /\ Len(seg) > 0
    /\ \A i \in 1..Len(Unsigned(seg)) : Unsigned(seg)[i] \in Digits

\* The path parameter validates as `token_id: int`.
IsIntLiteral(seg) ==
    /\ Len(Unsigned(seg)) > 0
    /\ \A i \in 1..Len(Unsigned(seg)) : Unsigned(seg)[i] \in Digits

RECURSIVE DigitsValue(_)
DigitsValue(ds) ==
    IF ds = <<>> THEN 0
    ELSE 10 * DigitsValue(SubSeq(ds, 1, Len(ds) - 1)) + DigitVal(ds[Len(ds)])

ParseInt(seg) ==
    IF seg[1] = "-" THEN 0 - DigitsValue(Unsigned(seg))
                    ELSE DigitsValue(Unsigned(seg))

Idle ==
    [pc |-> "idle", method |-> "", path |-> "", seg |-> <<>>, token_id |-> 0,
     song_data |-> <<>>, collaborators |-> <<>>, calls |-> <<>>,
     response |-> [status |-> 0]]

Call(fn, arg) == [fn |-> fn, arg |-> arg]

----------------------------------------------------------------------------
(* The chain                                                               *)

ChainTokens == {1}

ServedStates == {0, 2, 4, 5}

ChainSongs ==
    { SongData(0, 0, 0, <<0, 0, 0>>, ZeroHash, "") } \cup
    { SongData(s, 1700000000, 42, <<1, 0, 0>>, [i \in 1..HashLen |-> 171], "abc123") :
        s \in ServedStates }

NoAsset == [exists |-> FALSE, song |-> <<>>, collaborators |-> <<>>]

Asset(s, c) == [exists |-> TRUE, song |-> s, collaborators |-> c]

ChainValues ==
    {NoAsset} \cup
    { Asset(s, CollabList(n)) : s \in ChainSongs, n \in 0..MaxChainCollab }

Ok(v) == [ok |-> TRUE, value |-> v]

Fail(e) == [ok |-> FALSE, error |-> e]

\* What a view call can come back with: the argument must encode as a
\* uint256, the node may be out of reach, the contract reverts for a token
\* that was never minted, and otherwise the value stored now is decoded.
ViewCall(token_id, field) ==
    IF token_id < 0
    THEN { Fail("argument is not a uint256") }
    ELSE { Fail("connection refused") } \cup
         IF token_id \in DOMAIN chain /\ chain[token_id].exists
         THEN { Ok(chain[token_id][field]) }
         ELSE { Fail("execution reverted") }

\* A read served from what another request holds for the same token.
getSongDataCached(token_id) ==
    LET held == { q \in DOMAIN req :
                    Len(req[q].song_data) > 0 /\ req[q].token_id = token_id }
    IN  IF held # {}
        THEN { Ok(req[q].song_data) : q \in held }
        ELSE ViewCall(token_id, "song")

\* contract.functions.getSongData(token_id).call()
getSongData(token_id) == ViewCall(token_id, "song")

\* contract.functions.getCollaborators(token_id).call()
getCollaborators(token_id) == ViewCall(token_id, "collaborators")

\* The contract changes an asset (mint, state advance, new collaborator).
ChainUpdate ==
    /\ \E t \in ChainTokens, v \in ChainValues :
          /\ v # chain[t]
          /\ chain' = [chain EXCEPT ![t] = v]
    /\ UNCHANGED <<req, lifecycle_map, contract>>

----------------------------------------------------------------------------
(* The HTTP surface                                                        *)

Done(r, resp) == [req EXCEPT ![r].pc = "done", ![r].response = resp]

\* A middleware that lets preflight requests through.
MethodAllowedPreflight(method) == method \in {"GET", "OPTIONS"}

\* The test of allow_only_get, negated.
MethodAllowed(method) == method = "GET"

\* allow_only_get: the outermost middleware, entered when a request comes in.
AllowOnlyGet(r) ==
    /\ req[r].pc = "idle"
    /\ \E m \in Methods, t \in Targets :
          LET q == [Idle EXCEPT !.method = m, !.path = t.path, !.seg = t.seg]
          IN  IF ~MethodAllowed(m)
              THEN req' = [req EXCEPT ![r] =
                        [q EXCEPT !.pc = "done",
                                  !.response = [status |-> 405,
                                                content |-> [error |-> "Method not allowed"]]]]
              ELSE req' = [req EXCEPT ![r] = [q EXCEPT !.pc = "call_next"]]
    /\ UNCHANGED <<chain, lifecycle_map, contract>>

\* call_next: the router matches the path and the method (every route is an
\* app.get) and validates the path parameter.
Route(r) ==
    /\ req[r].pc = "call_next"
    /\ req' =
         CASE req[r].path \notin {"/", "/metadata/", "/view/"} ->
                Done(r, [status |-> 404, detail |-> "Not Found"])
           [] req[r].path \in {"/", "/metadata/", "/view/"} /\ req[r].method # "GET" ->
                Done(r, [status |-> 405, detail |-> "Method Not Allowed"])
           [] req[r].path = "/" /\ req[r].method = "GET" ->
                [req EXCEPT ![r].pc = "root"]
           [] req[r].path \in {"/metadata/", "/view/"} /\ req[r].method = "GET" ->
                IF IsIntLiteral(req[r].seg)
                THEN [req EXCEPT ![r].token_id = ParseInt(req[r].seg),
                                 ![r].pc = IF req[r].path = "/metadata/"
                                           THEN "meta_song" ELSE "view_song"]
                ELSE Done(r, [status |-> 422, detail |-> "int_parsing"])
    /\ UNCHANGED <<chain, lifecycle_map, contract>>

\* root()
Root(r) ==
    /\ req[r].pc = "root"
    /\ req' = Done(r, [status |-> 200,
                       content |-> [status |-> "ok", network |-> "Base Sepolia"]])
    /\ UNCHANGED <<chain, lifecycle_map, contract>>

\* The except clause of get_nft_metadata.
MetadataError(token_id, e) ==
    [status |-> 404,
     detail |-> <<"Token ", token_id, " not found or error: ", e>>]

\* get_nft_metadata, first read.
MetaGetSongData(r) ==
    /\ req[r].pc = "meta_song"
    /\ \E out \in getSongData(req[r].token_id) :
          LET logged == [req EXCEPT ![r].calls =
                            Append(@, Call("getSongData", req[r].token_id))]
          IN  req' = IF out.ok
                     THEN [logged EXCEPT ![r].song_data = out.value,
                                         ![r].pc = "meta_collab"]
                     ELSE [logged EXCEPT ![r].pc = "done",
                                         ![r].response =
                                            MetadataError(req[r].token_id, out.error)]
    /\ UNCHANGED <<chain, lifecycle_map, contract>>

\* A second read whose failure is answered with the metadata built so far.
MetaGetCollaboratorsPartial(r) ==
    /\ req[r].pc = "meta_collab"
    /\ \E out \in getCollaborators(req[r].token_id) :
          LET logged == [req EXCEPT ![r].calls =
                            Append(@, Call("getCollaborators", req[r].token_id))]
          IN  req' = IF out.ok
                     THEN [logged EXCEPT ![r].collaborators = out.value,
                                         ![r].pc = "meta_build"]
                     ELSE [logged EXCEPT ![r].pc = "done",
                                         ![r].response =
                                            [status |-> 200,
                                             content |->
                                                BuildMetadata(req[r].token_id,
                                                              req[r].song_data, <<>>)]]
    /\ UNCHANGED <<chain, lifecycle_map, contract>>

\* A handler that takes the collaborators to be empty without reading them.
MetaGetCollaboratorsSkipped(r) ==
    /\ req[r].pc = "meta_collab"
    /\ req' = [req EXCEPT ![r].collaborators = <<>>, ![r].pc = "meta_build"]
    /\ UNCHANGED <<chain, lifecycle_map, contract>>

\* get_nft_metadata, second read.
MetaGetCollaborators(r) ==
    /\ req[r].pc = "meta_collab"
    /\ \E out \in getCollaborators(req[r].token_id) :
          LET logged == [req EXCEPT ![r].calls =
                            Append(@, Call("getCollaborators", req[r].token_id))]
          IN  req' = IF out.ok
                     THEN [logged EXCEPT ![r].collaborators = out.value,
                                         ![r].pc = "meta_build"]
                     ELSE [logged EXCEPT ![r].pc = "done",
                                         ![r].response =
                                            MetadataError(req[r].token_id, out.error)]
    /\ UNCHANGED <<chain, lifecycle_map, contract>>

\* get_nft_metadata, from the unpacking to the return.
MetaBuild(r) ==
    /\ req[r].pc = "meta_build"
    /\ req' = Done(r, [status |-> 200,
                       content |-> BuildMetadata(req[r].token_id, req[r].song_data,
                                                 req[r].collaborators)])
    /\ UNCHANGED <<chain, lifecycle_map, contract>>

\* view_nft_modern, its read.
ViewGetSongData(r) ==
    /\ req[r].pc = "view_song"
    /\ \E out \in getSongData(req[r].token_id) :
          LET logged == [req EXCEPT ![r].calls =
                            Append(@, Call("getSongData", req[r].token_id))]
          IN  req' = IF out.ok
                     THEN [logged EXCEPT ![r].song_data = out.value,
                                         ![r].pc = "view_render"]
                     ELSE [logged EXCEPT ![r].pc = "done",
                                         ![r].response =
                                            [status |-> 404, detail |-> out.error]]
    /\ UNCHANGED <<chain, lifecycle_map, contract>>

\* view_nft_modern, from the lookup to the rendered template.
ViewRender(r) ==
    /\ req[r].pc = "view_render"
    /\ LET ctx == ViewContext(r, req[r].token_id, req[r].song_data)
       IN  req' = IF ctx.ok
                  THEN Done(r, [status |-> 200,
                                template |-> "nft_view.html",
                                context |-> ctx.value])
                  ELSE Done(r, [status |-> 404, detail |-> ctx.error])
    /\ UNCHANGED <<chain, lifecycle_map, contract>>

\* The response is sent and the connection serves the next request.
Respond(r) ==
    /\ req[r].pc = "done"
    /\ req' = [req EXCEPT ![r] = Idle]
    /\ UNCHANGED <<chain, lifecycle_map, contract>>

----------------------------------------------------------------------------
(* The server                                                              *)

Init ==
    /\ req = [r \in Requests |-> Idle]
    /\ chain = [t \in ChainTokens |-> NoAsset]
    /\ lifecycle_map = LIFECYCLE_MAP
    /\ contract = ContractHandle

Next ==
    \/ ChainUpdate
    \/ \E r \in Requests : AllowOnlyGet(r)
    \/ \E r \in Requests : Route(r)
    \/ \E r \in Requests : Root(r)
    \/ \E r \in Requests : MetaGetSongData(r)
    \/ \E r \in Requests : MetaGetCollaborators(r)
    \/ \E r \in Requests : MetaBuild(r)
    \/ \E r \in Requests : ViewGetSongData(r)
    \/ \E r \in Requests : ViewRender(r)
    \/ \E r \in Requests : Respond(r)

Spec == Init /\ [][Next]_vars

----------------------------------------------------------------------------
(* The builder on its own: one request that has completed its reads, for   *)
(* every value the ABI's types admit within the sample sets.               *)

ReadyMeta(t, s, c) ==
    [Idle EXCEPT !.pc = "meta_build", !.method = "GET", !.path = "/metadata/",
                 !.seg = <<"1">>, !.token_id = t,
                 !.song_data = s, !.collaborators = c,
                 !.calls = << Call("getSongData", t),
                              Call("getCollaborators", t) >>]

ReadyView(t, s) ==
    [Idle EXCEPT !.pc = "view_render", !.method = "GET", !.path = "/view/",
                 !.seg = <<"1">>, !.token_id = t,
                 !.song_data = s,
                 !.calls = << Call("getSongData", t) >>]

InitBuilder ==
    /\ \E t \in ChainTokens, s \in AllSongs, c \in CollabLists :
          /\ chain = [u \in ChainTokens |-> Asset(s, c)]
          /\ \/ req = [r \in Requests |->
                         IF r = "r1" THEN ReadyMeta(t, s, c) ELSE Idle]
             \/ /\ c = <<>>
                /\ req = [r \in Requests |->
                            IF r = "r1" THEN ReadyView(t, s) ELSE Idle]
    /\ lifecycle_map = LIFECYCLE_MAP
    /\ contract = ContractHandle

NextBuilder ==
    \/ \E r \in Requests : MetaBuild(r)
    \/ \E r \in Requests : ViewRender(r)

SpecBuilder == InitBuilder /\ [][NextBuilder]_vars

----------------------------------------------------------------------------
(* Properties                                                              *)

IsGetOn(r, paths) ==
    req[r].pc # "idle" /\ req[r].method = "GET" /\ req[r].path \in paths

Served(r, paths) ==
    IsGetOn(r, paths) /\ req[r].pc = "done" /\ req[r].response.status = 200

MetadataKeys == {"name", "description", "image", "external_url", "attributes"}

ReadErrors ==
    {"argument is not a uint256", "connection refused", "execution reverted"}

Traits(attrs) == [i \in 1..Len(attrs) |-> attrs[i].trait_type]

HasTrait(attrs, t) == \E i \in 1..Len(attrs) : attrs[i].trait_type = t

\* C1: a /metadata request with an integer token id that ends after a failed
\* read (getSongData or getCollaborators) ends with a 404 whose detail embeds
\* the token id and the error text and carries no metadata; it ends with
\* 200 and the full metadata only out of the build that follows two
\* successful reads, and that metadata has the collaborator attribute
\* whenever the state discloses it.
C1_FailureIs404 ==
    [][\A r \in Requests :
         (req[r].pc \in {"meta_song", "meta_collab", "meta_build"}
            /\ req'[r].pc = "done")
         => LET resp == req'[r].response
            IN  IF req[r].pc = "meta_build"
                THEN /\ resp.status = 200
                     /\ DOMAIN resp = {"status", "content"}
                     /\ DOMAIN resp.content = MetadataKeys
                     /\ Len(req'[r].calls) = 2
                     /\ (req[r].song_data[1] >= 1
                           => HasTrait(resp.content.attributes, "Collaborators"))
                ELSE /\ resp.status = 404
                     /\ DOMAIN resp = {"status", "detail"}
                     /\ Len(resp.detail) = 4
                     /\ resp.detail[1] = "Token "
                     /\ resp.detail[2] = req[r].token_id
                     /\ resp.detail[3] = " not found or error: "
                     /\ resp.detail[4] \in ReadErrors]_vars

\* getSongData has succeeded, getCollaborators has failed, and the answer is
\* the 404.
C1_Witness ==
    \E r \in Requests :
       /\ IsGetOn(r, {"/metadata/"}) /\ req[r].pc = "done"
       /\ Len(req[r].song_data) > 0
       /\ Len(req[r].calls) = 2
       /\ req[r].response.status = 404

\* C4 (as claimed): whatever state code the contract returns, once the reads
\* have succeeded both endpoints answer 200 with state 0's display info
\* for a code outside the table.
C4_UnknownStateNeverErrors ==
    \A r \in Requests :
       (IsGetOn(r, {"/metadata/", "/view/"}) /\ req[r].pc = "done"
          /\ Len(req[r].song_data) > 0 /\ req[r].song_data[1] > 4)
       => IF req[r].path = "/view/"
          THEN /\ req[r].response.status = 200
               /\ req[r].response.context.state_name = "Upload"
          ELSE \/ /\ req[r].response.status = 200
                  /\ req[r].response.content.description[2] = "Upload"
               \/ /\ req[r].response.status = 404
                  /\ req[r].response.detail[4] \in ReadErrors

\* C5: a request whose method is not GET is answered 405 with the body
\* {error: "Method not allowed"} on every path, with a well-formed or
\* malformed token id, and makes no chain read.
C5_NonGetIs405 ==
    \A r \in Requests :
       (req[r].pc # "idle" /\ req[r].method # "GET")
       => /\ req[r].pc = "done"
          /\ req[r].response.status = 405
          /\ DOMAIN req[r].response = {"status", "content"}
          /\ req[r].response.content = [error |-> "Method not allowed"]
          /\ req[r].calls = <<>>

\* A POST to /metadata/ with a malformed token id has been answered 405.
C5_Witness ==
    \E r \in Requests :
       /\ req[r].pc = "done" /\ req[r].method = "POST"
       /\ req[r].path = "/metadata/" /\ req[r].seg = <<"a">>
       /\ req[r].response.status = 405

NonIntegerSegments == { <<"a">>, <<"1", "a">>, <<"-">> }

\* C6: a GET to /metadata/ or /view/ whose token id segment is not an
\* integer never enters a handler, makes no chain read, and is answered
\* with a 4xx status other than 404.
C6_MalformedRejectedBeforeRead ==
    \A r \in Requests :
       (IsGetOn(r, {"/metadata/", "/view/"}) /\ req[r].seg \in NonIntegerSegments)
       => /\ req[r].pc \in {"call_next", "done"}
          /\ req[r].calls = <<>>
          /\ (req[r].pc = "done"
                => /\ req[r].response.status \in 400..499
                   /\ req[r].response.status # 404)

\* A GET to /view/ with a non-numeric token id has been rejected.
C6_Witness ==
    \E r \in Requests :
       /\ IsGetOn(r, {"/view/"}) /\ req[r].pc = "done"
       /\ req[r].seg = <<"a">>
       /\ req[r].response.status = 422

\* C7 (as claimed): a GET to /metadata/ with a negative token id is stopped
\* by input validation: the negative value is never handed to a chain read
\* and the answer is not the catch-all 404.
C7_NegativeRejectedByValidation ==
    \A r \in Requests :
       (IsGetOn(r, {"/metadata/"}) /\ req[r].seg = <<"-", "1">>)
       => /\ \A i \in 1..Len(req[r].calls) : req[r].calls[i].arg >= 0
          /\ (req[r].pc = "done"
                => /\ req[r].response.status \in 400..499
                   /\ req[r].response.status # 404)

\* C8 (as claimed): every request served with 200 on /metadata/ or /view/
\* has made exactly one getSongData read and then one getCollaborators
\* read for its token id.
C8_SameReadsOnBothEndpoints ==
    \A r \in Requests :
       Served(r, {"/metadata/", "/view/"})
       => req[r].calls = << Call("getSongData", req[r].token_id),
                            Call("getCollaborators", req[r].token_id) >>

\* C8 (amended): a request served with 200 on /metadata/ has made exactly
\* one getSongData read and then one getCollaborators read for its token
\* id; a request served with 200 on /view/ has made exactly one
\* getSongData read for its token id and no getCollaborators read.
C8_ReadsPerEndpoint ==
    \A r \in Requests :
       /\ Served(r, {"/metadata/"})
          => req[r].calls = << Call("getSongData", req[r].token_id),
                               Call("getCollaborators", req[r].token_id) >>
       /\ Served(r, {"/view/"})
          => req[r].calls = << Call("getSongData", req[r].token_id) >>

\* Both endpoints have served a request.
C8_Witness ==
    \E r, q \in Requests : Served(r, {"/metadata/"}) /\ Served(q, {"/view/"})

\* C9: every successful read of a /metadata request returns what the chain
\* holds at that moment, whatever other requests have read before or hold
\* now; the response is the builder's value on the request's own token id and
\* reads; a step of one request leaves the others' records alone; and the
\* lifecycle table and the chain-client handle never change.
C9_StatelessUncached ==
    /\ [][\A r \in Requests :
            LET t == req[r].token_id
            IN  /\ (req[r].pc = "meta_song" /\ req'[r].pc = "meta_collab")
                   => /\ t \in DOMAIN chain /\ chain[t].exists
                      /\ req'[r].song_data = chain[t].song
                      /\ req'[r].calls = Append(req[r].calls, Call("getSongData", t))
                /\ (req[r].pc = "meta_collab" /\ req'[r].pc = "meta_build")
                   => /\ t \in DOMAIN chain /\ chain[t].exists
                      /\ req'[r].collaborators = chain[t].collaborators
                      /\ req'[r].calls =
                            Append(req[r].calls, Call("getCollaborators", t))
                /\ (req[r].pc = "meta_build" /\ req'[r].pc = "done")
                   => req'[r].response =
                         [status |-> 200,
                          content |-> BuildMetadata(t, req[r].song_data,
                                                    req[r].collaborators)]
                /\ req'[r] # req[r]
                   => \A q \in Requests \ {r} : req'[q] = req[q]]_vars
    /\ [](lifecycle_map = LIFECYCLE_MAP /\ contract = ContractHandle)

\* Two requests for the same token have been served different metadata, one
\* read before and one after a change on the chain.
C9_Witness ==
    \E r, q \in Requests :
       /\ Served(r, {"/metadata/"}) /\ Served(q, {"/metadata/"})
       /\ req[r].token_id = req[q].token_id
       /\ req[r].song_data # req[q].song_data
       /\ req[q].song_data = chain[req[q].token_id].song

\* C2: the attribute list of a served /metadata response has the Lifecycle
\* State attribute always; Audio Hash iff the hash is not the zero digest;
\* Collaborators, valued the number of collaborators read, iff state >= 1;
\* Spotify ID iff state >= 2 and the id is not empty; Published Date iff
\* state >= 2 and publishedAt is not zero; Stream Count and Revenue
\* Generated iff state >= 4.  For state 0 and a zero hash the list is the
\* Lifecycle State attribute alone, and for state 0 and another hash it is
\* that and the hash as 0x-prefixed hex.
C2_ProgressiveDisclosure ==
    \A r \in Requests :
       Served(r, {"/metadata/"})
       => LET song  == req[r].song_data
              s     == song[1]
              attrs == req[r].response.content.attributes
          IN  /\ HasTrait(attrs, "Lifecycle State")
              /\ HasTrait(attrs, "Audio Hash") <=> song[5] # ZeroHash
              /\ HasTrait(attrs, "Collaborators") <=> s >= 1
              /\ \A i \in 1..Len(attrs) :
                    attrs[i].trait_type = "Collaborators"
                    => attrs[i].value = Len(req[r].collaborators)
              /\ HasTrait(attrs, "Spotify ID") <=> (s >= 2 /\ song[6] # "")
              /\ HasTrait(attrs, "Published Date") <=> (s >= 2 /\ song[2] # 0)
              /\ HasTrait(attrs, "Stream Count") <=> s >= 4
              /\ HasTrait(attrs, "Revenue Generated") <=> s >= 4
              /\ (s = 0 /\ song[5] = ZeroHash)
                 => attrs = << [trait_type |-> "Lifecycle State", value |-> "Upload"] >>
              /\ (s = 0 /\ song[5] # ZeroHash)
                 => /\ Len(attrs) = 2
                    /\ attrs[2].trait_type = "Audio Hash"
                    /\ Len(attrs[2].value) = 2 + 2 * HashLen
                    /\ SubSeq(attrs[2].value, 1, 2) = <<"0", "x">>

\* A state-4 asset with every field set has been served with all seven
\* attributes.
C2_Witness ==
    \E r \in Requests :
       /\ Served(r, {"/metadata/"})
       /\ req[r].song_data[1] = 4
       /\ Len(req[r].collaborators) = 2
       /\ Len(req[r].response.content.attributes) = 7

ExpectedInfo(s) ==
    CASE s = 0 -> [name |-> "Upload",      file |-> "upload.jpg"]
      [] s = 1 -> [name |-> "Collaborate", file |-> "collaborate.jpg"]
      [] s = 2 -> [name |-> "Register",    file |-> "register.jpg"]
      [] s = 3 -> [name |-> "Publish",     file |-> "publish.jpg"]
      [] s = 4 -> [name |-> "Revenue",     file |-> "revenue.jpg"]
      [] OTHER -> [name |-> "Upload",      file |-> "upload.jpg"]

\* Codes the response check below does not reach: negative ones and ones
\* past a uint8, next to the table's own and its neighbours.
LookupProbe == ((0 - 3)..7) \cup {Uint8Max, Uint8Max + 1, 1000}

\* C3: the lookup returns the code's own name/file pair for 0..4 and the
\* state-0 pair for every other integer, and the description, the image
\* URI and the Lifecycle State attribute of a served /metadata response
\* all come from the pair of the state that was read.
C3_LookupWithFallback ==
    /\ \A s \in LookupProbe : LifecycleGet(s) = ExpectedInfo(s)
    /\ \A r \in Requests :
          Served(r, {"/metadata/"})
          => LET info == ExpectedInfo(req[r].song_data[1])
                 md   == req[r].response.content
             IN  /\ md.description =
                       <<"This song is currently in the ", info.name, " phase.">>
                 /\ md.image = IPFS_BASE_CID \o <<"/", info.file>>
                 /\ md.attributes[1] =
                       [trait_type |-> "Lifecycle State", value |-> info.name]

\* A state code outside the table has been served as Upload.
C3_Witness ==
    \E r \in Requests :
       /\ Served(r, {"/metadata/"})
       /\ req[r].song_data[1] = 7
       /\ req[r].response.content.attributes[1].value = "Upload"

FixedOrder ==
    <<"Lifecycle State", "Audio Hash", "Collaborators", "Spotify ID",
      "Published Date", "Stream Count", "Revenue Generated">>

Pos(t) == CHOOSE i \in 1..Len(FixedOrder) : FixedOrder[i] = t

\* C10: the trait types of a served /metadata response, in order, are a
\* subsequence of the fixed order that starts with Lifecycle State and
\* repeats nothing, and the trait types the same values give one state
\* code lower are a prefix of them.
C10_StableOrder ==
    \A r \in Requests :
       Served(r, {"/metadata/"})
       => LET song == req[r].song_data
              T    == Traits(req[r].response.content.attributes)
          IN  /\ T[1] = "Lifecycle State"
              /\ \A i \in 1..Len(T) : \E k \in 1..Len(FixedOrder) : FixedOrder[k] = T[i]
              /\ \A i, j \in 1..Len(T) : i < j => Pos(T[i]) < Pos(T[j])
              /\ song[1] > 0
                 => LET below == Traits(BuildMetadata(req[r].token_id,
                                           [song EXCEPT ![1] = song[1] - 1],
                                           req[r].collaborators).attributes)
                    IN  /\ Len(below) <= Len(T)
                        /\ SubSeq(T, 1, Len(below)) = below

\* A response carrying both the Spotify ID and the published date, after
\* the audio hash and the collaborators.
C10_Witness ==
    \E r \in Requests :
       /\ Served(r, {"/metadata/"})
       /\ req[r].song_data[1] = 3
       /\ Traits(req[r].response.content.attributes) =
             <<"Lifecycle State", "Audio Hash", "Collaborators", "Spotify ID",
               "Published Date">>

====
